---------------------------- MODULE Spec2Model ----------------------------
(***************************************************************************)
(* Model of plot_co2_eos.py: the Peng-Robinson evaluator calculate_pr_eos  *)
(* and the pipeline driver main.                                           *)
(*                                                                         *)
(* Python floats and numpy float64 are IEEE-754 binary64.  TLC's integers  *)
(* are 32-bit, so a binary64 value is modelled by a sign, a 53-bit         *)
(* significand held as a little-endian sequence of base-2^15 limbs and a   *)
(* binary exponent; every operation rounds to nearest, ties to even, as    *)
(* the hardware does.  Subnormals and overflow are out of the range the    *)
(* program's values reach and are not modelled; division by zero and the   *)
(* square root of a negative number give inf and nan as in numpy.          *)
(***************************************************************************)
EXTENDS Integers, Sequences, FiniteSets, TLC

-----------------------------------------------------------------------------
(* Natural numbers of arbitrary size: little-endian limbs, no high zeros.  *)
(* Carries are resolved by lookahead rather than by recursion over the     *)
(* limbs, which keeps TLC's evaluation stack shallow.                      *)
(*                                                                         *)
(* The larger operations of the arithmetic are the cases of one recursive  *)
(* operator, Apply, so that an operation used inside another is a          *)
(* recursive reference; each is reached under its own name, MulLimb(m, d)  *)
(* being Apply("MulLimb", <<m, d>>).  NatOp, FloatOp and ArrayOp hold the  *)
(* cases of the three layers.                                              *)

RECURSIVE Apply(_, _)

\* The largest limb whose products and carries stay below 2^31.
LimbBase == 2^15
LimbBits == CHOOSE k \in 1..30 : 2^k = LimbBase

Max(m, n) == IF m >= n THEN m ELSE n
MaxOf(S) == CHOOSE m \in S : \A n \in S : n <= m

\* The elements of f as a tuple, each computed once
ToSeq(f) == SubSeq(f, 1, Len(f))

NormN(s) == SubSeq(s, 1, MaxOf({0} \cup {i \in 1..Len(s) : s[i] # 0}))

NatN(n) ==
  NormN(<<n % LimbBase, (n \div LimbBase) % LimbBase, n \div (LimbBase * LimbBase)>>)

Limb(s, i) == IF i >= 1 /\ i <= Len(s) THEN s[i] ELSE 0

\* -1, 0 or 1 as m < n, m = n, m > n
CmpN(m, n) ==
  IF Len(m) > Len(n) THEN 1
  ELSE IF Len(m) < Len(n) THEN -1
  ELSE LET D == {i \in 1..Len(m) : m[i] # n[i]}
       IN  IF D = {} THEN 0
           ELSE IF m[MaxOf(D)] > n[MaxOf(D)] THEN 1 ELSE -1

AddN(m, n) ==
  LET len == Max(Len(m), Len(n))
      Sum(i) == Limb(m, i) + Limb(n, i)
      Carry(i) == \E j \in 1..(i - 1) :
                     /\ Sum(j) >= LimbBase
                     /\ \A k \in (j + 1)..(i - 1) : Sum(k) = LimbBase - 1
  IN  NormN([i \in 1..(len + 1) |->
               (Sum(i) + (IF Carry(i) THEN 1 ELSE 0)) % LimbBase])

\* m - n, for m >= n
SubN(m, n) ==
  LET Borrow(i) == \E j \in 1..(i - 1) :
                      /\ m[j] < Limb(n, j)
                      /\ \A k \in (j + 1)..(i - 1) : m[k] = Limb(n, k)
  IN  NormN([i \in 1..Len(m) |->
               (m[i] - Limb(n, i) - (IF Borrow(i) THEN 1 ELSE 0) + LimbBase) % LimbBase])

\* m * d for one limb d
MulLimb(m, d) == Apply("MulLimb", <<m, d>>)

RECURSIVE ColumnSum(_, _, _, _)
ColumnSum(m, n, k, i) ==
  IF i = 0 THEN 0
  ELSE ((Limb(m, i) * Limb(n, k + 1 - i)) % LimbBase)
       + ((Limb(m, i) * Limb(n, k - i)) \div LimbBase)
       + ColumnSum(m, n, k, i - 1)

\* Column k of the schoolbook product holds the low halves of the limb
\* products of weight k and the high halves of those of weight k - 1.
MulN(m, n) ==
  LET cols == ToSeq([k \in 1..(Len(m) + Len(n)) |-> ColumnSum(m, n, k, Len(m))])
  IN  AddN(NormN([k \in 1..Len(cols) |-> cols[k] % LimbBase]),
           NormN([k \in 1..(Len(cols) + 1) |->
                    IF k = 1 THEN 0 ELSE cols[k - 1] \div LimbBase]))

\* m * 2^k
ShlN(m, k) ==
  IF m = <<>> THEN <<>>
  ELSE [i \in 1..(k \div LimbBits) |-> 0] \o MulLimb(m, 2^(k % LimbBits))

\* floor(m / 2^k)
ShrN(m, k) ==
  LET q == k \div LimbBits
      r == k % LimbBits
  IN  NormN([i \in 1..(Len(m) - q) |->
               (m[i + q] \div 2^r) + (Limb(m, i + q + 1) % 2^r) * 2^(LimbBits - r)])

\* The number of bits of one limb
BitLenInt(n) == CHOOSE k \in 0..LimbBits : n < 2^k /\ (k = 0 \/ 2^(k - 1) <= n)

BitLenN(m) ==
  IF m = <<>> THEN 0 ELSE LimbBits * (Len(m) - 1) + BitLenInt(m[Len(m)])

IsOddN(m) == m # <<>> /\ m[1] % 2 = 1

\* m mod 2^k is not zero
LowBitsNonZero(m, k) ==
  \E i \in 1..Len(m) :
     /\ m[i] # 0
     /\ \/ i <= k \div LimbBits
        \/ i = (k \div LimbBits) + 1 /\ m[i] % 2^(k % LimbBits) # 0

RECURSIVE FixDigit(_, _, _)
FixDigit(r, d, q) ==
  IF q > 0 /\ CmpN(MulLimb(d, q), r) > 0 THEN FixDigit(r, d, q - 1) ELSE q

\* One digit of the long division: r < d * LimbBase, d's top limb >= 2^14,
\* so the estimate from the leading limbs is at most 2 too large.
QuotDigit(r, d) ==
  LET L    == Len(d)
      top2 == Limb(r, L + 1) * LimbBase + Limb(r, L)
      est  == top2 \div d[L]
  IN  FixDigit(r, d, IF est > LimbBase - 1 THEN LimbBase - 1 ELSE est)

\* Limbs i, i-1, ..., 1 of n are still to be brought down; r < d is the
\* remainder so far and q the quotient digits found.  Each digit is a limb
\* and leaves a remainder below d; testing that before descending also
\* makes TLC compute each digit before the next, which keeps its
\* evaluation stack shallow.
LongDiv(n, d, i, r, q) == Apply("LongDiv", <<n, d, i, r, q>>)

\* floor(n / d) and whether the division is exact, d # 0.  Both are scaled
\* so that d's top limb has its high bit set; the division starts from the
\* leading limbs of n that are below d.
DivN(n, d) == Apply("DivN", <<n, d>>)

\* Newton's iteration for the integer square root, from r >= sqrt(n)
RECURSIVE NewtonSqrt(_, _)
NewtonSqrt(n, r) ==
  LET q == DivN(n, r).quot
      y == ShrN(AddN(r, q), 1)
  IN  CASE q # <<>> -> IF CmpN(y, r) >= 0 THEN r ELSE NewtonSqrt(n, y)

\* floor(sqrt(n)), n # 0
SqrtN(n) == NewtonSqrt(n, ShlN(<<1>>, (BitLenN(n) + 1) \div 2))

NatOp(op, x) ==
  CASE op = "MulLimb" ->
         LET m == x[1]
             d == x[2]
         IN  AddN(NormN([i \in 1..Len(m) |-> (m[i] * d) % LimbBase]),
                  NormN([i \in 1..(Len(m) + 1) |->
                           IF i = 1 THEN 0 ELSE (m[i - 1] * d) \div LimbBase]))
    [] op = "LongDiv" ->
         LET n == x[1]
             d == x[2]
             i == x[3]
             r == x[4]
             q == x[5]
         IN  IF i = 0 THEN [quot |-> NormN(q), rem |-> r]
             ELSE LET cur  == NormN(<<n[i]>> \o r)
                      dig  == QuotDigit(cur, d)
                      rest == SubN(cur, MulLimb(d, dig))
                  IN  (CASE dig \in 0..(LimbBase - 1) /\ CmpN(rest, d) < 0 ->
                              LongDiv(n, d, i - 1, rest, <<dig>> \o q))
    [] op = "DivN" ->
         LET n    == x[1]
             d    == x[2]
             sh   == LimbBits - BitLenInt(d[Len(d)])
             ns   == ShlN(n, sh)
             ds   == ShlN(d, sh)
             low  == Max(0, Len(ns) - Len(ds))
             lead == SubSeq(ns, low + 1, Len(ns))
             res  == IF CmpN(lead, ds) < 0
                     THEN LongDiv(ns, ds, low, lead, <<>>)
                     ELSE LongDiv(ns, ds, low + 1, SubSeq(ns, low + 2, Len(ns)), <<>>)
         IN  [quot |-> res.quot, exact |-> res.rem = <<>>]

-----------------------------------------------------------------------------
(* IEEE-754 binary64: (-1)^sign * man * 2^exp with 2^52 <= man < 2^53, or  *)
(* zero (man = <<>>, exp = 0), or inf, or nan.                             *)

Precision == 53

Fin(sign, man, exp) == [kind |-> "fin", sign |-> sign, man |-> man, exp |-> exp]
FZero(sign) == Fin(sign, <<>>, 0)
FInf(sign) == [kind |-> "inf", sign |-> sign, man |-> <<>>, exp |-> 0]
FNaN == [kind |-> "nan", sign |-> 0, man |-> <<>>, exp |-> 0]

IsNaN(f) == f.kind = "nan"
IsInf(f) == f.kind = "inf"
IsFinite(f) == f.kind = "fin"
IsZero(f) == f.kind = "fin" /\ f.man = <<>>

Xor(s, t) == IF s = t THEN 0 ELSE 1

\* Round man * 2^exp (plus x nonzero tail below it when sticky) to nearest,
\* ties to even.  A sticky tail comes only with man of 55 bits or more.
RoundF(sign, man, exp, sticky) == Apply("RoundF", <<sign, man, exp, sticky>>)

\* int -> float (exact below 2^53)
FromInt(n) == RoundF(IF n < 0 THEN 1 ELSE 0, NatN(IF n < 0 THEN -n ELSE n), 0, FALSE)

FNeg(f) == IF IsNaN(f) THEN f ELSE [f EXCEPT !.sign = 1 - f.sign]

\* x * y
FMul(x, y) == Apply("FMul", <<x, y>>)

\* numpy's true_divide: x/0 is inf (with a RuntimeWarning), 0/0 is nan
FDiv(x, y) == Apply("FDiv", <<x, y>>)

\* x + y for finite x and y
FAddFinite(x, y) == Apply("FAddFinite", <<x, y>>)

FAdd(x, y) ==
  IF IsNaN(x) \/ IsNaN(y) THEN FNaN
  ELSE IF IsInf(x) /\ IsInf(y) THEN (IF x.sign = y.sign THEN x ELSE FNaN)
  ELSE IF IsInf(x) THEN x
  ELSE IF IsInf(y) THEN y
  ELSE FAddFinite(x, y)

FSub(x, y) == FAdd(x, FNeg(y))

\* numpy's sqrt: nan (with a RuntimeWarning) below zero
FSqrt(x) == Apply("FSqrt", <<x>>)

\* x**2: pow(x, 2.0) for x Python float, numpy's square for an array; both x*x
FSquare(x) == FMul(x, x)

\* x < y as IEEE compares (false when either is nan)
FLess(x, y) ==
  IF IsNaN(x) \/ IsNaN(y) THEN FALSE
  ELSE IF IsZero(x) /\ IsZero(y) THEN FALSE
  ELSE IF x.sign # y.sign THEN x.sign = 1
  ELSE LET lessMag ==   \* |x| < |y|
             IF IsInf(x) THEN FALSE
             ELSE IF IsInf(y) THEN TRUE
             ELSE IF IsZero(x) THEN TRUE
             ELSE IF IsZero(y) THEN FALSE
             ELSE IF x.exp # y.exp THEN x.exp < y.exp
             ELSE CmpN(x.man, y.man) < 0
           eqMag == x.kind = y.kind /\ x.man = y.man /\ x.exp = y.exp
       IN  IF x.sign = 0 THEN lessMag ELSE ~lessMag /\ ~eqMag

\* x == y as IEEE compares
FEq(x, y) == ~IsNaN(x) /\ ~IsNaN(y) /\ ((IsZero(x) /\ IsZero(y)) \/ x = y)

FLeq(x, y) == FLess(x, y) \/ FEq(x, y)

\* The float x decimal literal digits * 10^(-places) denotes (the parser
\* rounds the exact quotient once; both operands are exact).
Dec(digits, places) == Apply("Dec", <<digits, places>>)

FloatOp(op, x) ==
  CASE op = "RoundF" ->
         LET sign   == x[1]
             man    == x[2]
             exp    == x[3]
             sticky == x[4]
             bl     == BitLenN(man)
         IN  IF man = <<>> THEN FZero(sign)
             ELSE IF bl <= Precision
             THEN Fin(sign, ShlN(man, Precision - bl), exp - (Precision - bl))
             ELSE LET sh   == bl - Precision
                      q    == ShrN(man, sh)
                      half == IsOddN(ShrN(man, sh - 1))
                      tail == sticky \/ LowBitsNonZero(man, sh - 1)
                      up   == half /\ (tail \/ IsOddN(q))
                      r    == IF up THEN AddN(q, <<1>>) ELSE q
                  IN  IF BitLenN(r) > Precision
                      THEN Fin(sign, ShrN(r, 1), exp + sh + 1)
                      ELSE Fin(sign, r, exp + sh)
    [] op = "FMul" ->
         LET u == x[1]
             v == x[2]
         IN  IF IsNaN(u) \/ IsNaN(v) THEN FNaN
             ELSE IF (IsInf(u) /\ IsZero(v)) \/ (IsZero(u) /\ IsInf(v)) THEN FNaN
             ELSE IF IsInf(u) \/ IsInf(v) THEN FInf(Xor(u.sign, v.sign))
             ELSE RoundF(Xor(u.sign, v.sign), MulN(u.man, v.man), u.exp + v.exp, FALSE)
    [] op = "FDiv" ->
         LET u == x[1]
             v == x[2]
         IN  IF IsNaN(u) \/ IsNaN(v) THEN FNaN
             ELSE IF (IsInf(u) /\ IsInf(v)) \/ (IsZero(u) /\ IsZero(v)) THEN FNaN
             ELSE IF IsInf(u) \/ IsZero(v) THEN FInf(Xor(u.sign, v.sign))
             ELSE IF IsInf(v) \/ IsZero(u) THEN FZero(Xor(u.sign, v.sign))
             ELSE LET d == DivN(ShlN(u.man, Precision + 6), v.man)
                  IN  RoundF(Xor(u.sign, v.sign), d.quot,
                             u.exp - v.exp - (Precision + 6), ~d.exact)
    [] op = "FAddFinite" ->
         LET u == x[1]
             v == x[2]
         IN  IF IsZero(u) /\ IsZero(v)
             THEN FZero(IF u.sign = 1 /\ v.sign = 1 THEN 1 ELSE 0)
             ELSE IF IsZero(u) THEN v
             ELSE IF IsZero(v) THEN u
             ELSE IF u.exp - v.exp > Precision + 3 THEN u
             ELSE IF v.exp - u.exp > Precision + 3 THEN v
             ELSE LET e  == IF u.exp < v.exp THEN u.exp ELSE v.exp
                      mu == ShlN(u.man, u.exp - e)
                      mv == ShlN(v.man, v.exp - e)
                      c  == CmpN(mu, mv)
                  IN  IF u.sign = v.sign THEN RoundF(u.sign, AddN(mu, mv), e, FALSE)
                      ELSE IF c = 0 THEN FZero(0)
                      ELSE IF c > 0 THEN RoundF(u.sign, SubN(mu, mv), e, FALSE)
                      ELSE RoundF(v.sign, SubN(mv, mu), e, FALSE)
    [] op = "FSqrt" ->
         LET u == x[1]
         IN  IF IsNaN(u) THEN FNaN
             ELSE IF IsZero(u) THEN u
             ELSE IF u.sign = 1 THEN FNaN
             ELSE IF IsInf(u) THEN u
             ELSE LET odd == u.exp % 2 = 1
                      n   == ShlN(u.man, IF odd THEN 2 * 28 + 1 ELSE 2 * 28)
                      e   == (IF odd THEN u.exp - 1 ELSE u.exp) - 2 * 28
                      r   == SqrtN(n)
                  IN  RoundF(0, r, e \div 2, MulN(r, r) # n)
    [] op = "Dec" -> FDiv(FromInt(x[1]), FromInt(10^x[2]))

-----------------------------------------------------------------------------
(* numpy arrays: a dtype, a shape and the elements in row-major order.  A  *)
(* Python scalar in an array expression is the 0-d array Scalar(v).        *)

NDArray(dtype, shape, data) == [dtype |-> dtype, shape |-> shape, data |-> data]
Scalar(v) == NDArray("float64", <<>>, <<v>>)
IntScalar(n) == NDArray("int64", <<>>, <<n>>)
Vector(dtype, data) == NDArray(dtype, <<Len(data)>>, data)

NDim(A) == Len(A.shape)
Rows(A) == IF NDim(A) = 2 THEN A.shape[1] ELSE 1
Cols(A) == IF NDim(A) = 0 THEN 1 ELSE A.shape[NDim(A)]
Size(A) == Rows(A) * Cols(A)

\* An element as float64: int64 elements are converted when an operation
\* mixes them with floats.
AsFloat(A, k) == IF A.dtype = "int64" THEN FromInt(A.data[k]) ELSE A.data[k]

\* At with the row index dropped: every row of the result would read the
\* first row of A.
AtShared(A, i, j) == AsFloat(A, IF Cols(A) = 1 THEN 1 ELSE j)

\* Element (i, j) of A stretched to a larger shape: an axis of length 1 (or
\* a missing leading axis) repeats its only entry.
At(A, i, j) ==
  AsFloat(A, ((IF Rows(A) = 1 THEN 1 ELSE i) - 1) * Cols(A)
             + (IF Cols(A) = 1 THEN 1 ELSE j))

\* The broadcast length of two axes; 0 when the shapes do not broadcast
\* (numpy raises ValueError).
BroadcastDim(m, n) ==
  IF m = n THEN m ELSE IF m = 1 THEN n ELSE IF n = 1 THEN m ELSE 0

BroadcastShape(A, B) ==
  LET r == BroadcastDim(Rows(A), Rows(B))
      c == BroadcastDim(Cols(A), Cols(B))
      n == Max(NDim(A), NDim(B))
  IN  IF n = 2 THEN <<r, c>> ELSE IF n = 1 THEN <<c>> ELSE <<>>

\* The scalar operation of a binary ufunc
Binary(ufunc, x, y) ==
  CASE ufunc = "true_divide" -> FDiv(x, y)
    [] ufunc = "multiply" -> FMul(x, y)
    [] ufunc = "add" -> FAdd(x, y)
    [] ufunc = "subtract" -> FSub(x, y)

\* The scalar operation of a unary ufunc
Unary(ufunc, x) ==
  CASE ufunc = "sqrt" -> FSqrt(x)
    [] ufunc = "square" -> FSquare(x)

\* A binary ufunc: the result has the broadcast shape and element (i, j) is
\* the operation on the operands' elements at (i, j).
Elementwise(ufunc, A, B) == Apply("Elementwise", <<ufunc, A, B>>)

\* A unary ufunc
Map(ufunc, A) == Apply("Map", <<ufunc, A>>)

ArrayOp(op, x) ==
  CASE op = "Elementwise" ->
         LET ufunc == x[1]
             A     == x[2]
             B     == x[3]
             r     == BroadcastDim(Rows(A), Rows(B))
             c     == BroadcastDim(Cols(A), Cols(B))
         IN  NDArray("float64", BroadcastShape(A, B),
                     ToSeq([k \in 1..(r * c) |->
                              Binary(ufunc,
                                     At(A, ((k - 1) \div c) + 1, ((k - 1) % c) + 1),
                                     At(B, ((k - 1) \div c) + 1, ((k - 1) % c) + 1))]))
    [] op = "Map" ->
         LET ufunc == x[1]
             A     == x[2]
         IN  NDArray("float64", A.shape,
                     ToSeq([k \in 1..Size(A) |-> Unary(ufunc, AsFloat(A, k))]))

\* The operands x are evaluated before the operation is chosen, as Python
\* evaluates the arguments of a call (the comparison makes TLC compute them).
Apply(op, x) ==
  CASE x = <<>> -> x
    [] op \in {"Elementwise", "Map"} -> ArrayOp(op, x)
    [] op \in {"RoundF", "FMul", "FDiv", "FAddFinite", "FSqrt", "Dec"} -> FloatOp(op, x)
    [] op \in {"MulLimb", "LongDiv", "DivN"} -> NatOp(op, x)

Divide(A, B) == Elementwise("true_divide", A, B)
Multiply(A, B) == Elementwise("multiply", A, B)
Add(A, B) == Elementwise("add", A, B)
Subtract(A, B) == Elementwise("subtract", A, B)
Sqrt(A) == Map("sqrt", A)
Square(A) == Map("square", A)

\* A.reshape(1, -1): one row
ReshapeRow(A) == NDArray(A.dtype, <<1, Size(A)>>, A.data)

\* A.reshape(-1, 1): a new array over the same elements, one per row
ReshapeColumn(A) == NDArray(A.dtype, <<Size(A), 1>>, A.data)

-----------------------------------------------------------------------------
(* calculate_pr_eos                                                        *)

\* CO2 physical constants
Tc == Dec(3042, 1)
Pc == FromInt(7377000)
w == Dec(228, 3)
R == Dec(8314, 3)

\* Peng-Robinson constants
Psi == Dec(45724, 5)
Omega == Dec(7780, 5)
\* K with the quadratic term added instead of subtracted
KPlus == FAdd(FAdd(Dec(37464, 5), FMul(Dec(154226, 5), w)),
              FMul(Dec(26992, 5), FSquare(w)))

K == FSub(FAdd(Dec(37464, 5), FMul(Dec(154226, 5), w)),
          FMul(Dec(26992, 5), FSquare(w)))

b == FDiv(FMul(FMul(Omega, R), Tc), Pc)

\* Lines 32-34: Tr = temperatures_K / Tc, reshaped to one column
ReducedTemperature(temperatures) ==
  ReshapeColumn(Divide(temperatures, Scalar(Tc)))

\* Line 36: alpha = (1 + K * (1 - np.sqrt(Tr)))**2
AlphaOf(reduced) ==
  Square(Add(IntScalar(1),
             Multiply(Scalar(K), Subtract(IntScalar(1), Sqrt(reduced)))))

\* Line 37: a = Psi * alpha * (R**2 * Tc**2) / Pc
AttractionOf(alphas) ==
  Divide(Multiply(Multiply(Scalar(Psi), alphas),
                  Scalar(FMul(FSquare(R), FSquare(Tc)))),
         Scalar(Pc))

\* b - molar_volumes: the operands of line 41's denominator exchanged
RepulsiveDenominatorSwapped(volumes) == Subtract(Scalar(b), volumes)

\* Line 41: molar_volumes - b, the denominator of the first term
RepulsiveDenominator(volumes) == Subtract(volumes, Scalar(b))

\* Line 42's denominator with its second term subtracted
AttractiveDenominatorMinus(volumes) ==
  Subtract(Multiply(volumes, Add(volumes, Scalar(b))),
           Multiply(Scalar(b), Subtract(volumes, Scalar(b))))

\* Line 42: molar_volumes * (molar_volumes + b) + b * (molar_volumes - b)
AttractiveDenominator(volumes) ==
  Add(Multiply(volumes, Add(volumes, Scalar(b))),
      Multiply(Scalar(b), Subtract(volumes, Scalar(b))))

\* The two terms of lines 41-42 subtracted the other way round
PengRobinsonSwapped(temperatures, volumes, attraction) ==
  Subtract(Divide(attraction, AttractiveDenominator(volumes)),
           Divide(Multiply(Scalar(R), ReshapeColumn(temperatures)),
                  RepulsiveDenominator(volumes)))

\* Lines 41-42: the vectorized equation of state
PengRobinson(temperatures, volumes, attraction) ==
  Subtract(Divide(Multiply(Scalar(R), ReshapeColumn(temperatures)),
                  RepulsiveDenominator(volumes)),
           Divide(attraction, AttractiveDenominator(volumes)))

\* A after A.shape = (-1, 1), which reshapes A itself
ReshapedInPlace(A) == NDArray(A.dtype, <<Size(A), 1>>, A.data)

\* The array a method was called on, after A.reshape(-1, 1): reshape
\* returns a new view and leaves A as it was.
AfterReshape(A) == A

-----------------------------------------------------------------------------
(* The process.  It either runs the file as a script (main) or imports the *)
(* module and calls calculate_pr_eos on arrays of its own.                 *)

VARIABLES
  pc,                \* where the process is
  temperatures_K,    \* the caller's temperature array / main's local
  molar_volumes,     \* the caller's molar-volume array / main's local
  Tr, alpha, a,      \* locals of the last calculate_pr_eos frame
  pressure_Pa,       \* what calculate_pr_eos returned last
  densities_kg_m3,   \* main's locals
  pressure_MPa,
  row,               \* main's loop index i, counted from 0
  figure,            \* pyplot's current figure
  files,             \* the image files written, in order
  stdout,            \* the lines printed
  created,           \* the caller's arrays as they were created (history)
  saved              \* one earlier call: its arguments and result (history)

vars == <<pc, temperatures_K, molar_volumes, Tr, alpha, a, pressure_Pa,
          densities_kg_m3, pressure_MPa, row, figure, files, stdout,
          created, saved>>

None == NDArray("NoneType", <<>>, <<>>)
NoFigure ==
  [open |-> FALSE, curves |-> <<>>, title |-> "", xlabel |-> "", ylabel |-> "",
   legend |-> FALSE, grid |-> FALSE, ybottom |-> <<>>]
NoArrays == [set |-> FALSE, T |-> None, V |-> None]
NoCall == [set |-> FALSE, T |-> None, V |-> None, P |-> None, between |-> FALSE]

Init ==
  /\ pc = "start"
  /\ temperatures_K = None
  /\ molar_volumes = None
  /\ Tr = None
  /\ alpha = None
  /\ a = None
  /\ pressure_Pa = None
  /\ densities_kg_m3 = None
  /\ pressure_MPa = None
  /\ row = 0
  /\ figure = NoFigure
  /\ files = <<>>
  /\ stdout = <<>>
  /\ created = NoArrays
  /\ saved = NoCall

\* Lines 4-44.  The function has no branch and no raise: it always returns.
calculate_pr_eos(temperatures, volumes) ==
  /\ Tr' = ReducedTemperature(temperatures)
  /\ alpha' = AlphaOf(Tr')
  /\ a' = AttractionOf(alpha')
  /\ pressure_Pa' = PengRobinson(temperatures, volumes, a')

mainLocals == <<densities_kg_m3, pressure_MPa, row, figure, files, stdout>>
frame == <<Tr, alpha, a, pressure_Pa>>

-----------------------------------------------------------------------------
(* main                                                                    *)

\* A grid without its endpoint: num - 1 points from start in steps of
\* (stop - start) / (num - 1)
LinspaceOpen(start, stop, num) ==
  Vector("float64",
         ToSeq([k \in 1..(num - 1) |->
                  FAdd(FMul(FromInt(k - 1),
                            FDiv(FSub(FromInt(stop), FromInt(start)),
                                 FromInt(num - 1))),
                       FromInt(start))]))

\* np.linspace(start, stop, num) for num > 1: step = (stop - start) / (num - 1),
\* element i is i * step + start, and the last element is set to stop.
Linspace(start, stop, num) ==
  Vector("float64",
         ToSeq([k \in 1..num |->
                  IF k = num THEN FromInt(stop)
                  ELSE FAdd(FMul(FromInt(k - 1),
                                 FDiv(FSub(FromInt(stop), FromInt(start)),
                                      FromInt(num - 1))),
                            FromInt(start))]))

\* A[i, :] of a 2-d array, i counted from 0
RowOf(A, i) == Vector(A.dtype, SubSeq(A.data, i * Cols(A) + 1, (i + 1) * Cols(A)))

\* Row i plotted against the molar volumes instead of the densities
CurveAgainstVolumes(i) ==
  [x |-> molar_volumes, y |-> RowOf(pressure_MPa, i),
   label |-> ToString(temperatures_K.data[i + 1]) \o " K"]

\* Line 71: the curve of row i, pressure_MPa[i, :] against densities_kg_m3,
\* labelled f'{T} K' with T the i-th temperature
Curve(i) ==
  [x |-> densities_kg_m3, y |-> RowOf(pressure_MPa, i),
   label |-> ToString(temperatures_K.data[i + 1]) \o " K"]

\* Lines 51-58: the density and temperature grids and the molar volumes
Generate ==
  /\ pc = "start"
  /\ densities_kg_m3' = Linspace(50, 1000, 50)
  /\ temperatures_K' = Vector("int64", <<295, 325, 345, 375>>)
  /\ molar_volumes' = Divide(Scalar(Dec(44, 3)), densities_kg_m3')
  /\ pc' = "generated"
  /\ UNCHANGED <<frame, pressure_MPa, row, figure, files, stdout, created, saved>>

\* Line 61
Evaluate ==
  /\ pc = "generated"
  /\ calculate_pr_eos(temperatures_K, molar_volumes)
  /\ temperatures_K' = AfterReshape(temperatures_K)
  /\ pc' = "evaluated"
  /\ UNCHANGED <<molar_volumes, mainLocals, created, saved>>

\* Line 64: pressure_MPa = pressure_Pa / 1e6
Convert ==
  /\ pc = "evaluated"
  /\ pressure_MPa' = Divide(pressure_Pa, Scalar(FromInt(1000000)))
  /\ pc' = "converted"
  /\ UNCHANGED <<temperatures_K, molar_volumes, frame, densities_kg_m3, row,
                 figure, files, stdout, created, saved>>

\* Line 67: plt.figure
Figure ==
  /\ pc = "converted"
  /\ figure' = [NoFigure EXCEPT !.open = TRUE]
  /\ row' = 0
  /\ pc' = "plotting"
  /\ UNCHANGED <<temperatures_K, molar_volumes, frame, densities_kg_m3,
                 pressure_MPa, files, stdout, created, saved>>

\* Lines 70-71: one pass of the loop over enumerate(temperatures_K)
Plot ==
  /\ pc = "plotting"
  /\ row < Size(temperatures_K)
  /\ figure' = [figure EXCEPT !.curves = Append(@, Curve(row))]
  /\ row' = row + 1
  /\ UNCHANGED <<pc, temperatures_K, molar_volumes, frame, densities_kg_m3,
                 pressure_MPa, files, stdout, created, saved>>

\* Lines 74-79, once the loop is exhausted
Decorate ==
  /\ pc = "plotting"
  /\ row = Size(temperatures_K)
  /\ figure' = [figure EXCEPT
                  !.title = "CO2 Pressure vs. Density (Peng-Robinson EOS)",
                  !.xlabel = "Density (kg/m³)",
                  !.ylabel = "Pressure (MPa)",
                  !.legend = TRUE,
                  !.grid = TRUE,
                  !.ybottom = <<0>>]
  /\ pc' = "decorated"
  /\ UNCHANGED <<temperatures_K, molar_volumes, frame, densities_kg_m3,
                 pressure_MPa, row, files, stdout, created, saved>>

\* Line 82: plt.savefig writes the file, or raises (an unwritable path, a
\* full disk) and the exception ends main.
Savefig ==
  /\ pc = "decorated"
  /\ \/ /\ files' = Append(files, [name |-> "co2_eos_plot.png", image |-> figure])
        /\ pc' = "saved"
     \/ /\ files' = files
        /\ pc' = "failed"
  /\ UNCHANGED <<temperatures_K, molar_volumes, frame, densities_kg_m3,
                 pressure_MPa, row, figure, stdout, created, saved>>

\* Line 83
PrintSaved ==
  /\ pc = "saved"
  /\ stdout' = Append(stdout, "Plot saved as co2_eos_plot.png")
  /\ pc' = "printed"
  /\ UNCHANGED <<temperatures_K, molar_volumes, frame, densities_kg_m3,
                 pressure_MPa, row, figure, files, created, saved>>

\* Line 84: plt.show returns and main ends
Show ==
  /\ pc = "printed"
  /\ pc' = "done"
  /\ UNCHANGED <<temperatures_K, molar_volumes, frame, mainLocals, created, saved>>

main ==
  \/ Generate
  \/ Evaluate
  \/ Convert
  \/ Figure
  \/ Plot
  \/ Decorate
  \/ Savefig
  \/ PrintSaved
  \/ Show

-----------------------------------------------------------------------------
(* The module used as a library                                            *)

MaxNT == 2
MaxNV == 2

\* The contiguous runs of list of length 1..maxLen
Windows(list, maxLen) ==
  UNION {{SubSeq(list, k, k + n - 1) : k \in 1..(Len(list) - n + 1)} :
           n \in 1..maxLen}

\* The least float above a positive finite f
NextUp(f) == RoundF(f.sign, AddN(f.man, <<1>>), f.exp, FALSE)

\* Temperatures and molar volumes a caller may pass: valid ones, and the
\* ones the documentation of the inputs rules out.
TemperatureList ==
  <<FromInt(295), FromInt(325), FromInt(300), FZero(0), FromInt(-5)>>
VolumeList ==
  <<Dec(3, 4), b, NextUp(b), Dec(88, 5), Dec(2, 4), Dec(1, 5), FZero(0),
    FNeg(Dec(3, 4))>>

Import ==
  /\ pc = "start"
  /\ pc' = "imported"
  /\ UNCHANGED <<temperatures_K, molar_volumes, frame, mainLocals, created, saved>>

\* The caller builds its two arrays.
NewArrays(temperatureLists, volumeLists) ==
  /\ pc \in {"imported", "returned"}
  /\ \E T \in temperatureLists, V \in volumeLists :
        /\ temperatures_K' = Vector("float64", T)
        /\ molar_volumes' = Vector("float64", V)
        /\ created' = [set |-> TRUE, T |-> Vector("float64", T),
                       V |-> Vector("float64", V)]
  /\ pc' = "called"
  /\ Tr' = None /\ alpha' = None /\ a' = None /\ pressure_Pa' = None
  /\ UNCHANGED <<mainLocals, saved>>

\* The caller's call returns.  (saved.between records that a call on other
\* arguments has come after the remembered one.)
Call ==
  /\ pc \in {"called", "returned"}
  /\ calculate_pr_eos(temperatures_K, molar_volumes)
  /\ temperatures_K' = AfterReshape(temperatures_K)
  /\ pc' = "returned"
  /\ saved' = IF saved.set /\ (created.T # saved.T \/ created.V # saved.V)
              THEN [saved EXCEPT !.between = TRUE]
              ELSE saved
  /\ UNCHANGED <<molar_volumes, mainLocals, created>>

\* The caller keeps the arguments and the result of a call to compare
\* later calls with.
Remember ==
  /\ pc = "returned"
  /\ ~saved.set
  /\ saved' = [set |-> TRUE, T |-> created.T, V |-> created.V,
               P |-> pressure_Pa, between |-> FALSE]
  /\ UNCHANGED <<pc, temperatures_K, molar_volumes, frame, mainLocals, created>>

TemperatureVectors == Windows(TemperatureList, MaxNT)
VolumeVectors == Windows(VolumeList, MaxNV)

Next ==
  \/ main
  \/ Import
  \/ NewArrays(TemperatureVectors, VolumeVectors)
  \/ Call

Spec == Init /\ [][Next]_vars

\* A caller that compares calls: fewer arrays, and one call remembered.
FewTemperatureVectors == Windows(SubSeq(TemperatureList, 1, 2), MaxNT)
FewVolumeVectors == Windows(SubSeq(VolumeList, 1, 3), MaxNV)

NextHistory ==
  \/ Import
  \/ NewArrays(FewTemperatureVectors, FewVolumeVectors)
  \/ Call
  \/ Remember

SpecHistory == Init /\ [][NextHistory]_vars

-----------------------------------------------------------------------------
(* Properties                                                              *)

NumT == Size(temperatures_K)
NumV == Size(molar_volumes)
TemperatureAt(i) == AsFloat(temperatures_K, i)
VolumeAt(j) == AsFloat(molar_volumes, j)
CellAt(i, j) == pressure_Pa.data[(i - 1) * NumV + j]

\* calculate_pr_eos has just returned (to a caller, or to main)
JustReturned == pc \in {"returned", "evaluated"}

Positive(f) == FLess(FZero(0), f)
FAbs(f) == IF IsNaN(f) THEN f ELSE [f EXCEPT !.sign = 0]

\* x is within 1e-9 of y, relative to y
Close(x, y) == FLeq(FAbs(FSub(x, y)), FMul(Dec(1, 9), FAbs(y)))

\* lo <= x < hi
Between(lo, x, hi) == FLeq(lo, x) /\ FLess(x, hi)

\* The documented preconditions: every T > 0 and every V > b
InputsValid ==
  /\ \A i \in 1..NumT : Positive(TemperatureAt(i))
  /\ \A j \in 1..NumV : FLess(b, VolumeAt(j))

ScalarAlpha(T) ==
  FSquare(FAdd(FromInt(1), FMul(K, FSub(FromInt(1), FSqrt(FDiv(T, Tc))))))

\* a(T) in floating point, the product R^2 * Tc^2 formed first
ScalarAttraction(T) ==
  FDiv(FMul(FMul(Psi, ScalarAlpha(T)), FMul(FSquare(R), FSquare(Tc))), Pc)

\* a(T) with the factors Psi, alpha, R^2, Tc^2 multiplied from left to right
ChainAttraction(T) ==
  FDiv(FMul(FMul(FMul(Psi, ScalarAlpha(T)), FSquare(R)), FSquare(Tc)), Pc)

\* R*T/(V - b) - att/(V*(V + b) + b*(V - b)) for one temperature and volume
ScalarPressure(T, V, att) ==
  FSub(FDiv(FMul(R, T), FSub(V, b)),
       FDiv(att, FAdd(FMul(V, FAdd(V, b)), FMul(b, FSub(V, b)))))

\* C1: after a call whose temperatures are all > 0 and whose molar volumes
\* are all > b, every cell (i, j) of the returned grid is the value of
\* R*T[i]/(V[j] - b) - a[i]/(V[j]*(V[j] + b) + b*(V[j] - b)) computed from
\* T[i] and V[j] alone: exactly, when a[i] is formed in the order the code
\* groups it, and within 1e-9 relative when its factors are multiplied
\* from left to right.
C1_CellFormula ==
  (JustReturned /\ InputsValid) =>
    \A i \in 1..NumT : \A j \in 1..NumV :
       /\ CellAt(i, j) = ScalarPressure(TemperatureAt(i), VolumeAt(j),
                                        ScalarAttraction(TemperatureAt(i)))
       /\ Close(CellAt(i, j),
                ScalarPressure(TemperatureAt(i), VolumeAt(j),
                               ChainAttraction(TemperatureAt(i))))

C1_Witness ==
  /\ pc = "returned"
  /\ InputsValid
  /\ NumT = 2 /\ NumV = 2
  /\ ~FEq(TemperatureAt(1), TemperatureAt(2))
  /\ ~FEq(VolumeAt(1), VolumeAt(2))
  /\ IsFinite(CellAt(2, 1))

\* C2: a call with a temperature <= 0, a molar volume <= 0 or a molar
\* volume <= b fails and returns no grid; so whenever a call has returned,
\* its inputs met the preconditions and every cell is finite.
C2_InvalidInputRejected ==
  JustReturned =>
    /\ InputsValid
    /\ \A k \in 1..Len(pressure_Pa.data) : IsFinite(pressure_Pa.data[k])

\* The grid a call on the single temperature T[i] and the single molar
\* volume V[j] returns
SingleCell(i, j) ==
  PengRobinson(Vector("float64", <<TemperatureAt(i)>>),
               Vector("float64", <<VolumeAt(j)>>),
               AttractionOf(AlphaOf(ReducedTemperature(
                 Vector("float64", <<TemperatureAt(i)>>)))))

\* C3: the grid returned for NT temperatures and NV molar volumes has
\* exactly NT rows and NV columns, and its cell (i, j) is the pressure of
\* temperature i and molar volume j.
C3_Shape ==
  JustReturned =>
    /\ NumT >= 1 /\ NumV >= 1
    /\ pressure_Pa.shape = <<NumT, NumV>>
    /\ Len(pressure_Pa.data) = NumT * NumV
    /\ \A i \in 1..NumT : \A j \in 1..NumV :
          <<CellAt(i, j)>> = SingleCell(i, j).data

C3_Witness ==
  /\ pc = "returned"
  /\ NumT = 2 /\ NumV = 1
  /\ pressure_Pa.shape = <<2, 1>>
  /\ CellAt(1, 1) # CellAt(2, 1)

KnownCall ==
  /\ pc = "returned"
  /\ temperatures_K.data = <<FromInt(300)>>
  /\ molar_volumes.data = <<Dec(3, 4)>>

PressureInRange ==
  /\ IsFinite(CellAt(1, 1))
  /\ Positive(CellAt(1, 1))
  /\ FLeq(FromInt(1000000), CellAt(1, 1))
  /\ FLeq(CellAt(1, 1), FromInt(10000000))

\* C5 (as amended): for T = [300] and V = [0.0003], b is 2.667e-5 and K is
\* 0.7122 to four significant digits, and the single cell is positive,
\* finite and between 1e6 and 1e7 Pa.
C5_KnownValues ==
  KnownCall =>
    /\ Between(Dec(26665, 9), b, Dec(26675, 9))
    /\ Between(Dec(71215, 5), K, Dec(71225, 5))
    /\ PressureInRange

C5_Witness == KnownCall /\ PressureInRange

\* C5 as written: b is 2.666e-5 and K is 0.7024 to four significant digits.
C5_AsWritten ==
  KnownCall =>
    /\ Between(Dec(26655, 9), b, Dec(26665, 9))
    /\ Between(Dec(70235, 5), K, Dec(70245, 5))
    /\ PressureInRange

\* C6: a has one entry per row, computed from that row's temperature, and
\* two rows whose temperatures and attraction parameters differ differ in
\* every column whose molar volume is above b.
C6_RowsDiffer ==
  JustReturned =>
    /\ a.shape = <<NumT, 1>>
    /\ \A p \in 1..NumT : a.data[p] = ScalarAttraction(TemperatureAt(p))
    /\ \A p \in 1..NumT : \A q \in 1..NumT :
          (~FEq(TemperatureAt(p), TemperatureAt(q)) /\ ~FEq(a.data[p], a.data[q]))
            => \A j \in 1..NumV :
                  FLess(b, VolumeAt(j)) => ~FEq(CellAt(p, j), CellAt(q, j))

C6_Witness ==
  /\ pc = "returned"
  /\ temperatures_K.data = <<FromInt(295), FromInt(325)>>
  /\ NumV = 2
  /\ \A j \in 1..NumV : FLess(b, VolumeAt(j))
  /\ ~FEq(a.data[1], a.data[2])
  /\ ~FEq(CellAt(1, 2), CellAt(2, 2))

\* main has reached or passed the return of its call
GridStages ==
  {"evaluated", "converted", "plotting", "decorated", "saved", "failed",
   "printed", "done"}

\* C7: in a run of main the densities are 50 points from 50 to 1000, the
\* temperatures are 295, 325, 345 and 375, every molar volume 0.044/density
\* is above b, the grid has shape 4 x 50 with all 200 cells finite, and a
\* run that ends has written co2_eos_plot.png.
C7_DefaultPipeline ==
  /\ pc \in GridStages =>
       /\ temperatures_K.data = <<295, 325, 345, 375>>
       /\ Len(densities_kg_m3.data) = 50
       /\ densities_kg_m3.data[1] = FromInt(50)
       /\ densities_kg_m3.data[50] = FromInt(1000)
       /\ \A j \in 1..NumV :
             /\ VolumeAt(j) = FDiv(Dec(44, 3), densities_kg_m3.data[j])
             /\ FLess(b, VolumeAt(j))
       /\ pressure_Pa.shape = <<4, 50>>
       /\ Len(pressure_Pa.data) = 200
       /\ \A k \in 1..Len(pressure_Pa.data) : IsFinite(pressure_Pa.data[k])
  /\ pc = "done" =>
       /\ Len(files) = 1
       /\ files[1].name = "co2_eos_plot.png"

C7_Witness ==
  /\ pc = "done"
  /\ Len(files) = 1
  /\ pressure_Pa.shape = <<4, 50>>
  /\ \A k \in 1..200 : IsFinite(pressure_Pa.data[k])

\* The region of C8: molar volumes of at least six times b
StableVolume(V) == FLeq(FMul(FromInt(6), b), V)

\* C8: on a row at a temperature of 295 K or more, of two molar volumes
\* V1 < V2 that are both at least 6*b the smaller has the strictly larger
\* pressure.
C8_Monotone ==
  JustReturned =>
    \A i \in 1..NumT :
       FLeq(FromInt(295), TemperatureAt(i)) =>
         \A j \in 1..NumV : \A k \in 1..NumV :
            (StableVolume(VolumeAt(j)) /\ FLess(VolumeAt(j), VolumeAt(k)))
              => FLess(CellAt(i, k), CellAt(i, j))

C8_Witness ==
  /\ pc = "returned"
  /\ NumV = 2
  /\ FLeq(FromInt(295), TemperatureAt(1))
  /\ StableVolume(VolumeAt(2))
  /\ FLess(VolumeAt(2), VolumeAt(1))
  /\ FLess(CellAt(1, 1), CellAt(1, 2))

MainStages == GridStages \cup {"generated"}

StageRank ==
  [generated |-> 1, evaluated |-> 2, converted |-> 3, plotting |-> 4,
   decorated |-> 5, saved |-> 6, failed |-> 6, printed |-> 7, done |-> 8]

\* One step of a run of main keeps the stage order: the stage only moves
\* to the next one, each result is produced in its own stage, a curve is
\* added only while plotting (the next row, against the densities) and the
\* file is written only once all rows are plotted and nothing was written.
StepInOrder ==
  /\ (pc = "start" /\ pc' # pc) => pc' \in {"generated", "imported"}
  /\ (pc \in MainStages /\ pc' # pc) =>
       /\ pc # "failed"
       /\ pc' \in MainStages
       /\ StageRank[pc'] = StageRank[pc] + 1
  /\ densities_kg_m3' # densities_kg_m3 => (pc = "start" /\ pc' = "generated")
  /\ (pc' \in MainStages /\ molar_volumes' # molar_volumes) =>
       /\ pc = "start"
       /\ molar_volumes' = Divide(Scalar(Dec(44, 3)), densities_kg_m3')
  /\ (pc' \in MainStages /\ pressure_Pa' # pressure_Pa) =>
       (pc = "generated" /\ pc' = "evaluated")
  /\ pressure_MPa' # pressure_MPa =>
       /\ pc = "evaluated" /\ pc' = "converted"
       /\ pressure_MPa' = Divide(pressure_Pa, Scalar(FromInt(1000000)))
  /\ figure'.curves # figure.curves =>
       /\ pc = "plotting" /\ pc' = "plotting"
       /\ Len(figure.curves) < NumT
       /\ Len(figure'.curves) = Len(figure.curves) + 1
       /\ SubSeq(figure'.curves, 1, Len(figure.curves)) = figure.curves
       /\ figure'.curves[Len(figure'.curves)].x = densities_kg_m3
       /\ figure'.curves[Len(figure'.curves)].y =
            RowOf(pressure_MPa, Len(figure.curves))
  /\ files' # files =>
       /\ pc = "decorated" /\ pc' = "saved"
       /\ files = <<>>
       /\ Len(files') = 1
       /\ Len(figure.curves) = NumT

\* A run of main that has ended went through every stage.
EndedComplete ==
  pc = "done" =>
    /\ densities_kg_m3 # None /\ molar_volumes # None
    /\ pressure_Pa # None /\ pressure_MPa # None
    /\ Len(figure.curves) = NumT
    /\ \A i \in 1..NumT :
          /\ figure.curves[i].x = densities_kg_m3
          /\ figure.curves[i].y = RowOf(pressure_MPa, i - 1)
    /\ Len(files) = 1

\* C9: a run of main goes through grid generation, evaluation, conversion
\* to MPa and rendering once each and in this order; rendering plots one
\* curve per temperature row, in row order and against the densities, and
\* writes the image once, after the last curve (not at all when savefig
\* fails).
C9_StagesInOrder == [][StepInOrder]_vars /\ []EndedComplete

C9_Witness ==
  /\ pc = "done"
  /\ Len(figure.curves) = 4
  /\ Len(files) = 1
  /\ stdout # <<>>

\* C10: b is positive; when every molar volume of a call is above b, both
\* denominators are positive in every column; and of the molar volumes at
\* or above b only b itself makes a denominator zero.
C10_DenominatorsPositive ==
  JustReturned =>
    LET first  == RepulsiveDenominator(molar_volumes).data
        second == AttractiveDenominator(molar_volumes).data
    IN  /\ Positive(b)
        /\ (\A j \in 1..NumV : FLess(b, VolumeAt(j))) =>
             \A j \in 1..NumV : Positive(first[j]) /\ Positive(second[j])
        /\ \A j \in 1..NumV :
              FLeq(b, VolumeAt(j)) =>
                /\ IsZero(first[j]) <=> FEq(VolumeAt(j), b)
                /\ Positive(second[j])

C10_Witness ==
  /\ pc = "returned"
  /\ NumV = 2
  /\ VolumeAt(1) = NextUp(b)
  /\ \A j \in 1..NumV : FLess(b, VolumeAt(j))
  /\ Positive(RepulsiveDenominator(molar_volumes).data[1])
=============================================================================
